---- MODULE Spec2Model ----
(***************************************************************************)
(* State-machine model of smt/rmt.py: class RMT (fit, _compute_approx_terms,*)
(* _initialize_hessian, _opt_* , _solve, evaluate).                         *)
(*                                                                         *)
(* One model instance is followed through any sequence of fit and evaluate *)
(* calls.  The coefficient space has one degree of freedom per output      *)
(* column, so sol, rhs and d_sol are sequences indexed by the output       *)
(* column (1-based here, ind_y + 1 of the code) and every sparse matrix is *)
(* a list of integers, one per training point.  All data are integers:     *)
(* for the even p used (2 and 4) the factors 0.5 * p and 0.5 * p * (p-1)   *)
(* are integers, and a gradient norm is below 1e-16 exactly when the       *)
(* integer gradient is 0.  evaluate is followed for one query row.         *)
(*                                                                         *)
(* _fit, _compute_jac, the linear solver, the line search, the distance    *)
(* kernel and the caching helpers are not part of rmt.py.  _fit is taken   *)
(* as the sequence its callees' arguments force: the sizing record num,    *)
(* _compute_approx_terms, _initialize_hessian, _solve, self.sol = sol.     *)
(* The Jacobian assembler is a tensor-product basis of one polynomial,     *)
(* 1 + t + t^2 in each dimension, taken at the nearest point of the domain.*)
(***************************************************************************)
EXTENDS Integers, Sequences, FiniteSets, TLC

VARIABLES
    opts,          \* self.sm_options (the options the code reads)
    training,      \* self.training_pts['exact'] : kx -> [xt, yt]
    cache,         \* the file '<name>.sm' read and written by the caching helpers
    self_sol,      \* attribute self.sol  ([present, val])
    self_num,      \* attribute self.num  ([present, x, y])
    pc,            \* position of the call in progress ("idle" when none)
    todo,          \* _compute_approx_terms: orders of the loop not yet visited
    full_jac_dict, \* _compute_approx_terms: kx -> Jacobian column (one entry per point)
    full_hess,     \* [present, val] : result of _initialize_hessian
    rhs,           \* _solve local rhs   (one entry per output column)
    sol,           \* _solve local sol
    d_sol,         \* _solve local d_sol
    ind_y,         \* _solve loop variable (1-based)
    nln_iter,      \* _solve: Newton iterations already run for column ind_y
    log,           \* calls to the collaborators made by the fit in progress (kept when it fails)
    res            \* outcome of the last call made on the instance

vars == <<opts, training, cache, self_sol, self_num, pc, todo, full_jac_dict,
          full_hess, rhs, sol, d_sol, ind_y, nln_iter, log, res>>

\* Largest value of the option max_nln_iter that is explored.
MaxNlnIter == 2

----------------------------------------------------------------------------
(* Small helpers                                                            *)

Abs(a) == IF a < 0 THEN -a ELSE a

RECURSIVE Pow(_, _)
Pow(a, n) == IF n = 0 THEN 1 ELSE a * Pow(a, n - 1)

RECURSIVE SumSeq(_)
SumSeq(s) == IF s = <<>> THEN 0 ELSE Head(s) + SumSeq(Tail(s))

RECURSIVE SetToSeq(_)
SetToSeq(S) == IF S = {} THEN <<>>
               ELSE LET m == CHOOSE a \in S : \A b \in S : a <= b
                    IN <<m>> \o SetToSeq(S \ {m})

Zeros(n) == [i \in 1..n |-> 0]

\* Python's None for the argument kx of evaluate; an integer k is <<k>>.
KxNone == <<>>
KxInt(k) == <<k>>

Absent == [present |-> FALSE, val |-> <<>>]
Present(v) == [present |-> TRUE, val |-> v]
NumAbsent == [present |-> FALSE, x |-> 0, y |-> 0]

----------------------------------------------------------------------------
(* Configuration and data                                                   *)

\* sm_options['xlimits'] : lower and upper bound of each of the two dimensions
xlimits == << <<0, 2>>, <<0, 2>> >>

NumX == Len(xlimits)

\* The training sets explored, kx -> (xt, yt); kx = 0 holds values and
\* kx > 0 the derivatives along dimension kx.
TrainingSets ==
    { \* one order, one point (on the upper bound of dimension 0, inside
      \* dimension 1), one output column, target 0
      (0 :> [xt |-> << <<2, 1>> >>, yt |-> << <<0>> >>]),
      \* two orders, each with one point on the lower bounds, two output columns
      (0 :> [xt |-> << <<0, 0>> >>, yt |-> << <<3, 3>> >>]) @@
      (1 :> [xt |-> << <<0, 0>> >>, yt |-> << <<2, 2>> >>]),
      \* one order, one point on the lower bounds, two output columns with
      \* different targets
      (0 :> [xt |-> << <<0, 0>> >>, yt |-> << <<3, 1>> >>]),
      \* order 0 has a point below the lower bound of dimension 0
      (0 :> [xt |-> << <<1, 1>>, <<-1, 1>> >>, yt |-> << <<1>>, <<1>> >>]),
      \* order 1 has a point above the upper bound of dimension 1
      (0 :> [xt |-> << <<0, 0>> >>, yt |-> << <<1>> >>]) @@
      (1 :> [xt |-> << <<1, 3>> >>, yt |-> << <<1>> >>]) }

\* Query points of evaluate: interior, on a bound, on a corner, external
\* along one dimension (below and above), external along both
QueryPoints == { <<1, 1>>, <<0, 2>>, <<3, 2>>, <<1, -1>>, <<3, -1>> }
QueryKx == {KxNone} \cup {KxInt(k) : k \in 0..NumX}

Options == [approx_norm : {2, 4}, max_nln_iter : 0..MaxNlnIter,
            save_solution : BOOLEAN, extrapolate : BOOLEAN, reg_dv : {1}]

----------------------------------------------------------------------------
(* Collaborators: Jacobian assembler, distance kernel, linear solver, line  *)
(* search, caching helpers                                                  *)

\* Nearest point of the closed domain
Clamp(x) == [d \in 1..NumX |->
                IF x[d] < xlimits[d][1] THEN xlimits[d][1]
                ELSE IF x[d] > xlimits[d][2] THEN xlimits[d][2] ELSE x[d]]

\* n-th derivative of the one-dimensional basis polynomial 1 + t + t^2
BasisD(n, t) == CASE n = 0 -> 1 + t + t * t
                  [] n = 1 -> 1 + 2 * t
                  [] n = 2 -> 2
                  [] OTHER -> 0

\* self._compute_jac(kx, ix, x) for one point: the entry that maps the single
\* coefficient to the quantity kx (0 the value, k > 0 the derivative along
\* dimension k), differentiated once more along dimension ix when ix > 0,
\* taken at the nearest point of the domain.
ComputeJac(kx, ix, x) ==
    LET b == Clamp(x)
        ord(d) == (IF kx = d THEN 1 ELSE 0) + (IF ix = d THEN 1 ELSE 0)
    IN  BasisD(ord(1), b[1]) * BasisD(ord(2), b[2])

\* RMTSlib.compute_ext_dist for one point: the vector to the point from the
\* nearest point of the domain (zero for a point that is not external).
ComputeExtDist(x) == [d \in 1..NumX |-> x[d] - Clamp(x)[d]]

\* solver._solve(rhs, out): the solution of mtx * out = rhs on the integer
\* grid: the exact one when it is an integer, else either of its two
\* neighbours (mtx is positive).
SolverSolve(mtx, b) ==
    LET q == b \div mtx
    IN  {v \in {q - 1, q, q + 1} : Abs(mtx * v - b) < mtx}

\* ls(1.0): the point the line search returns from sol along d_sol, with the
\* full step offered first.
LineSearch(s, d) == {s + d}

\* _caching_checksum_sm(self): over the training data and the configuration
CachingChecksum(t, o) == [t |-> t, o |-> o]

NoFile == [present |-> FALSE, corrupt |-> FALSE,
           checksum |-> CachingChecksum(<<>>, <<>>),
           sol |-> <<>>, num |-> NumAbsent]

\* _caching_load(filename, checksum): (loaded, data); a missing file, a record
\* that cannot be read and another checksum are misses.
CachingLoad(file, checksum) ==
    [loaded |-> file.present /\ ~file.corrupt /\ file.checksum = checksum,
     sol |-> file.sol, num |-> file.num]

\* _caching_save(filename, checksum, data)
CachingSave(checksum, s, n) ==
    [present |-> TRUE, corrupt |-> FALSE, checksum |-> checksum,
     sol |-> s, num |-> n]

----------------------------------------------------------------------------
(* Pure functions of RMT                                                    *)

\* _initialize_hessian: reg_dv on the diagonal
InitializeHessian(o) == o.reg_dv

\* (mutation) strict comparison: a point on the lower bound is rejected
BelowMinStrict(xt) == \A d \in 1..NumX : \A i \in 1..Len(xt) : xlimits[d][1] < xt[i][d]

\* Lower / upper bound checks of _compute_approx_terms (the two asserts)
BelowMinOk(xt) == \A d \in 1..NumX : \A i \in 1..Len(xt) : xlimits[d][1] <= xt[i][d]
AboveMaxOk(xt) == \A d \in 1..NumX : \A i \in 1..Len(xt) : xlimits[d][2] >= xt[i][d]

\* full_jac of one order: one entry per training point
FullJac(kx, xt) == [i \in 1..Len(xt) |-> ComputeJac(kx, 0, xt[i])]

\* _get_yt_dict(ind_y): kx -> column ind_y of yt
GetYtDict(t, y) == [kx \in DOMAIN t |-> [i \in 1..Len(t[kx].yt) |-> t[kx].yt[i][y]]]

\* number of output columns, num['y']
NumY(t) == Len(t[0].yt[1])

\* The rows of all orders, as pairs <<Jacobian entry, target>>: what the loops
\* over kx of _opt_grad and _opt_hess_mtx go through
RECURSIVE RowsOf(_, _, _)
RowsOf(orders, jd, yd) ==
    IF orders = <<>> THEN <<>>
    ELSE LET kx == Head(orders)
         IN  [i \in 1..Len(jd[kx]) |-> <<jd[kx][i], yd[kx][i]>>]
               \o RowsOf(Tail(orders), jd, yd)

Rows(jd, yd) == RowsOf(SetToSeq(DOMAIN jd), jd, yd)

\* _opt_grad
OptGrad(s, p, hess, jd, yd) ==
    LET r == Rows(jd, yd)
        T(J, yt) == J * Pow(J * s - yt, p - 1)
    IN  hess * s + (p * SumSeq([i \in 1..Len(r) |-> T(r[i][1], r[i][2])])) \div 2

\* _opt_hess (use_mtx_free = False: _opt_hess_mtx; the matrix-free operator
\* has the same action)
OptHess(s, p, hess, jd, yd) ==
    LET r == Rows(jd, yd)
        T(J, yt) == J * (p * (p - 1) * Pow(J * s - yt, p - 2)) * J
    IN  hess + SumSeq([i \in 1..Len(r) |-> T(r[i][1], r[i][2])]) \div 2

\* _opt_hess_2 (p = 2)
OptHess2(hess, jd) ==
    LET r == Rows(jd, jd)
        T(J) == 2 * (2 - 1) * J * J
    IN  hess + SumSeq([i \in 1..Len(r) |-> T(r[i][1])]) \div 2

\* _opt_norm(...) < 1e-16
NormBelowTol(s, p, hess, jd, yd) == Abs(OptGrad(s, p, hess, jd, yd)) = 0

----------------------------------------------------------------------------
(* State                                                                    *)

NoRes == [call |-> "none", status |-> "none", text |-> "", order |-> -1,
          refit |-> FALSE, loaded |-> FALSE,
          x |-> <<>>, kx |-> KxNone, y |-> <<>>, corr |-> <<>>]

\* A call to a collaborator: what, for which order or column, in which Newton
\* iteration, and the value it returned for the column
Event(e, y, it, v) == [ev |-> e, y |-> y, it |-> it, v |-> v]

\* A file left by an earlier run with another configuration
StaleFile(t, o) ==
    CachingSave(CachingChecksum(t, [o EXCEPT !.reg_dv = 0]), <<0>>,
                [present |-> TRUE, x |-> NumX, y |-> 1])

\* A file for this configuration whose record cannot be read
CorruptFile(t, o) ==
    [CachingSave(CachingChecksum(t, o), <<0>>, [present |-> TRUE, x |-> NumX, y |-> 1])
       EXCEPT !.corrupt = TRUE]

\* The file an earlier run on the same data and configuration has saved (such
\* a run got through the assembly, so the data lie within the bounds)
EarlierFiles(t, o) ==
    IF \A kx \in DOMAIN t : BelowMinOk(t[kx].xt) /\ AboveMaxOk(t[kx].xt)
    THEN {CachingSave(CachingChecksum(t, o), Zeros(NumY(t)),
                      [present |-> TRUE, x |-> NumX, y |-> NumY(t)])}
    ELSE {}

Init ==
    /\ opts \in Options
    /\ training \in TrainingSets
    /\ cache \in {NoFile, StaleFile(training, opts), CorruptFile(training, opts)}
                   \cup EarlierFiles(training, opts)
    /\ self_sol = Absent
    /\ self_num = NumAbsent
    /\ pc = "idle"
    /\ todo = {}
    /\ full_jac_dict = <<>>
    /\ full_hess = Absent
    /\ rhs = <<>>
    /\ sol = <<>>
    /\ d_sol = <<>>
    /\ ind_y = 0
    /\ nln_iter = 0
    /\ log = <<>>
    /\ res = NoRes

Locals == <<todo, full_jac_dict, full_hess, rhs, sol, d_sol, ind_y, nln_iter>>

ClearLocals ==
    /\ todo' = {}
    /\ full_jac_dict' = <<>>
    /\ full_hess' = Absent
    /\ rhs' = <<>>
    /\ sol' = <<>>
    /\ d_sol' = <<>>
    /\ ind_y' = 0
    /\ nln_iter' = 0

----------------------------------------------------------------------------
(* fit                                                                      *)

\* (mutation) the file is read whether or not save_solution is set
FitLoadAlways == CachingLoad(cache, CachingChecksum(training, opts))

\* (loaded, data) as fit obtains it: the cache is read only with save_solution
FitLoad ==
    IF opts.save_solution
    THEN CachingLoad(cache, CachingChecksum(training, opts))
    ELSE [loaded |-> FALSE, sol |-> <<>>, num |-> NumAbsent]

\* fit, cache hit: sol and num come from the record, which is saved again
FitFromCache ==
    /\ pc = "idle"
    /\ FitLoad.loaded
    /\ self_sol' = Present(FitLoad.sol)
    /\ self_num' = FitLoad.num
    /\ cache' = IF opts.save_solution
                THEN CachingSave(CachingChecksum(training, opts), FitLoad.sol, FitLoad.num)
                ELSE cache
    /\ log' = <<>>
    /\ res' = [NoRes EXCEPT !.call = "fit", !.status = "ok", !.loaded = TRUE,
                            !.refit = self_sol.present]
    /\ UNCHANGED <<opts, training, pc, Locals>>

\* (mutation) a fitted instance is not fitted again
FitStartSkipWhenFitted ==
    /\ pc = "idle"
    /\ ~FitLoad.loaded
    /\ IF self_sol.present
       THEN /\ res' = [NoRes EXCEPT !.call = "fit", !.status = "ok", !.refit = TRUE]
            /\ log' = <<>>
            /\ UNCHANGED <<opts, training, cache, self_sol, self_num, pc, Locals>>
       ELSE /\ self_num' = [present |-> TRUE, x |-> NumX, y |-> NumY(training)]
            /\ todo' = DOMAIN training
            /\ full_jac_dict' = <<>>
            /\ pc' = "approx"
            /\ log' = <<>>
            /\ res' = [NoRes EXCEPT !.call = "fit", !.status = "running"]
            /\ UNCHANGED <<opts, training, cache, self_sol, full_hess, rhs, sol,
                           d_sol, ind_y, nln_iter>>

\* fit, no record loaded: _fit starts (sizing record, then the assembly loop)
FitStart ==
    /\ pc = "idle"
    /\ ~FitLoad.loaded
    /\ self_num' = [present |-> TRUE, x |-> NumX, y |-> NumY(training)]
    /\ todo' = DOMAIN training
    /\ full_jac_dict' = <<>>
    /\ pc' = "approx"
    /\ log' = <<>>
    /\ res' = [NoRes EXCEPT !.call = "fit", !.status = "running",
                            !.refit = self_sol.present]
    /\ UNCHANGED <<opts, training, cache, self_sol, full_hess, rhs, sol, d_sol,
                   ind_y, nln_iter>>

\* _compute_approx_terms, one pass of the loop over the orders: the two asserts,
\* then the Jacobian of the order
ApproxTerm ==
    /\ pc = "approx"
    /\ \E kx \in todo :
         LET xt == training[kx].xt IN
         IF ~BelowMinOk(xt) \/ ~AboveMaxOk(xt)
         THEN /\ pc' = "idle"
              /\ res' = [res EXCEPT !.status = "AssertionError",
                           !.text = IF ~BelowMinOk(xt) THEN "Training pts below min"
                                    ELSE "Training pts above max",
                           !.order = kx]
              /\ ClearLocals
              /\ UNCHANGED log
         ELSE /\ log' = Append(log, Event("jac", kx, 0, 0))
              /\ full_jac_dict' = (kx :> FullJac(kx, xt)) @@ full_jac_dict
              /\ todo' = todo \ {kx}
              /\ pc' = IF todo' = {} THEN "hess" ELSE "approx"
              /\ UNCHANGED <<res, full_hess, rhs, sol, d_sol, ind_y, nln_iter>>
    /\ UNCHANGED <<opts, training, cache, self_sol, self_num>>

\* _initialize_hessian
InitHess ==
    /\ pc = "hess"
    /\ full_hess' = Present(InitializeHessian(opts))
    /\ pc' = "assemble"
    /\ UNCHANGED <<opts, training, cache, self_sol, self_num, todo, full_jac_dict,
                   rhs, sol, d_sol, ind_y, nln_iter, log, res>>

----------------------------------------------------------------------------
(* _solve                                                                   *)

\* lines 190-205: zero arrays, the p = 2 system and its right-hand sides
SolveAssemble ==
    /\ pc = "assemble"
    /\ sol' = Zeros(self_num.y)
    /\ d_sol' = Zeros(self_num.y)
    /\ rhs' = [y \in 1..self_num.y |->
                 -OptGrad(0, 2, full_hess.val, full_jac_dict, GetYtDict(training, y))]
    /\ ind_y' = 1
    /\ pc' = "boot"
    /\ log' = Append(log, Event("assemble2", 0, 0, 0))
    /\ UNCHANGED <<opts, training, cache, self_sol, self_num, todo, full_jac_dict,
                   full_hess, nln_iter, res>>

\* (mutation) the two loops of _solve merged: the Newton loop of a column
\* follows its initial solve at once
AfterBootMerged(y, n) == [pc |-> "enter", ind_y |-> y]

\* The position after the initial solve of column y of n: the loop of line 207
\* goes through every column before the loop of line 212 starts
AfterBoot(y, n) ==
    IF y < n THEN [pc |-> "boot", ind_y |-> y + 1]
    ELSE [pc |-> "enter", ind_y |-> 1]

\* (mutation) the solver writes its solution into every column of sol
BootSolveAllColumns ==
    /\ pc = "boot"
    /\ \E v \in SolverSolve(OptHess2(full_hess.val, full_jac_dict), rhs[ind_y]) :
         /\ sol' = [c \in DOMAIN sol |-> v]
         /\ log' = Append(log, Event("boot", ind_y, 0, v))
    /\ pc' = AfterBoot(ind_y, Len(rhs)).pc
    /\ ind_y' = AfterBoot(ind_y, Len(rhs)).ind_y
    /\ UNCHANGED <<opts, training, cache, self_sol, self_num, todo, full_jac_dict,
                   full_hess, rhs, d_sol, nln_iter, res>>

\* lines 207-209: the initial linear solve of column ind_y
BootSolve ==
    /\ pc = "boot"
    /\ \E v \in SolverSolve(OptHess2(full_hess.val, full_jac_dict), rhs[ind_y]) :
         /\ sol' = [sol EXCEPT ![ind_y] = v]
         /\ log' = Append(log, Event("boot", ind_y, 0, v))
    /\ pc' = AfterBoot(ind_y, Len(rhs)).pc
    /\ ind_y' = AfterBoot(ind_y, Len(rhs)).ind_y
    /\ UNCHANGED <<opts, training, cache, self_sol, self_num, todo, full_jac_dict,
                   full_hess, rhs, d_sol, nln_iter, res>>

\* The position after the Newton loop of column y has ended
AfterColumn(y, n) ==
    IF y < n THEN [pc |-> "enter", ind_y |-> y + 1]
    ELSE [pc |-> "ret", ind_y |-> y]

\* (mutation) off by one: the loop runs once more
InRangeInclusive(it, max) == it <= max

\* line 225: whether range(max_nln_iter) yields the value it
InRange(it, max) == it < max

\* lines 212-223: a column of the second loop is entered; the diagnostic of
\* iteration 0 is printed when max_nln_iter > 0
NewtonEnter ==
    /\ pc = "enter"
    /\ nln_iter' = 0
    /\ log' = IF opts.max_nln_iter > 0
              THEN Append(log, Event("diag", ind_y, 0, sol[ind_y]))
              ELSE log
    /\ IF InRange(0, opts.max_nln_iter)
       THEN pc' = "loop" /\ ind_y' = ind_y
       ELSE /\ pc' = AfterColumn(ind_y, Len(rhs)).pc
            /\ ind_y' = AfterColumn(ind_y, Len(rhs)).ind_y
    /\ UNCHANGED <<opts, training, cache, self_sol, self_num, todo, full_jac_dict,
                   full_hess, rhs, sol, d_sol, res>>

\* (mutation) the break of line 257 is missing
ConvergedNever(s, p, hess, jd, yd) == FALSE

\* line 256: the test that leaves the loop after the step that gave iterate s
Converged(s, p, hess, jd, yd) == NormBelowTol(s, p, hess, jd, yd)

\* lines 225-257: one Newton iteration of column ind_y
NewtonIter ==
    /\ pc = "loop"
    /\ LET p  == opts.approx_norm
           yd == GetYtDict(training, ind_y)
           mtx == OptHess(sol[ind_y], p, full_hess.val, full_jac_dict, yd)
           b == -OptGrad(sol[ind_y], p, full_hess.val, full_jac_dict, yd)
       IN  \E d \in SolverSolve(mtx, b) : \E s \in LineSearch(sol[ind_y], d) :
             /\ rhs' = [rhs EXCEPT ![ind_y] = b]
             /\ d_sol' = [d_sol EXCEPT ![ind_y] = d]
             /\ sol' = [sol EXCEPT ![ind_y] = s]
             /\ log' = Append(log, Event("newton", ind_y, nln_iter + 1, s))
             /\ IF \/ Converged(s, p, full_hess.val, full_jac_dict, yd)
                   \/ ~InRange(nln_iter + 1, opts.max_nln_iter)
                THEN /\ pc' = AfterColumn(ind_y, Len(rhs)).pc
                     /\ ind_y' = AfterColumn(ind_y, Len(rhs)).ind_y
                     /\ nln_iter' = nln_iter + 1
                ELSE /\ pc' = "loop"
                     /\ ind_y' = ind_y
                     /\ nln_iter' = nln_iter + 1
    /\ UNCHANGED <<opts, training, cache, self_sol, self_num, todo, full_jac_dict,
                   full_hess, res>>

\* line 259, the end of _fit (self.sol = sol) and lines 281-284 of fit
FitFinish ==
    /\ pc = "ret"
    /\ self_sol' = Present(sol)
    /\ cache' = IF opts.save_solution
                THEN CachingSave(CachingChecksum(training, opts), sol, self_num)
                ELSE cache
    /\ pc' = "idle"
    /\ res' = [res EXCEPT !.status = "ok"]
    /\ ClearLocals
    /\ log' = <<>>
    /\ UNCHANGED <<opts, training, self_num>>

----------------------------------------------------------------------------
(* evaluate                                                                 *)

\* The derivative order handed to _compute_jac (None requests the value)
JacOrder(kx) == IF kx = KxNone THEN 0 ELSE kx[1]

\* isexternal = np.array(np.array(dx, bool), float)
IsExternal(dx) == [d \in 1..Len(dx) |-> IF dx[d] # 0 THEN 1 ELSE 0]

\* (mutation) the term is not scaled by the offset along ix
DataTmpUnscaled(x, kx, ix) ==
    LET dx == ComputeExtDist(x)
        t  == ComputeJac(JacOrder(kx), ix, x)
    IN  IF kx # KxInt(0) THEN t * (1 - IsExternal(dx)[kx[1]]) ELSE t

\* lines 339-345: the first-order term of dimension ix (1-based here), as it is
\* added to data at line 347
DataTmp(x, kx, ix) ==
    LET dx == ComputeExtDist(x)
        t  == ComputeJac(JacOrder(kx), ix, x) * dx[ix]
    IN  IF kx # KxInt(0) THEN t * (1 - IsExternal(dx)[kx[1]]) ELSE t

\* lines 309-349: the row of mtx and the terms added to it
EvaluateData(x, kx, extrapolate) ==
    LET base == ComputeJac(JacOrder(kx), 0, x)
        corr == IF extrapolate THEN [ix \in 1..NumX |-> DataTmp(x, kx, ix)]
                ELSE <<>>
    IN  [data |-> base + SumSeq(corr), corr |-> corr]

\* (mutation) no attribute is missing before the first fit: sol starts empty
EvaluateOutcomeEmptySol(x, kx, o, num, s) ==
    [NoRes EXCEPT !.call = "evaluate", !.x = x, !.kx = kx, !.status = "ok",
                  !.y = [c \in 1..Len(s.val) |-> 0]]

\* evaluate(x, kx) on one row x: the exception raised or the prediction row
EvaluateOutcome(x, kx, o, num, s) ==
    LET call == [NoRes EXCEPT !.call = "evaluate", !.x = x, !.kx = kx] IN
    IF ~num.present
    THEN [call EXCEPT !.status = "AttributeError", !.text = "num"]
    ELSE IF o.extrapolate /\ num.x > 0 /\ kx = KxNone
    THEN [call EXCEPT !.status = "TypeError", !.text = "kx-1"]
    ELSE IF ~s.present
    THEN [call EXCEPT !.status = "AttributeError", !.text = "sol"]
    ELSE LET e == EvaluateData(x, kx, o.extrapolate)
         IN  [call EXCEPT !.status = "ok", !.corr = e.corr,
                          !.y = [c \in 1..Len(s.val) |-> e.data * s.val[c]]]

Evaluate ==
    /\ pc = "idle"
    /\ \E x \in QueryPoints : \E kx \in QueryKx :
         res' = EvaluateOutcome(x, kx, opts, self_num, self_sol)
    /\ UNCHANGED <<opts, training, cache, self_sol, self_num, pc, Locals, log>>

----------------------------------------------------------------------------

Next ==
    \/ FitFromCache
    \/ FitStart
    \/ ApproxTerm
    \/ InitHess
    \/ SolveAssemble
    \/ BootSolve
    \/ NewtonEnter
    \/ NewtonIter
    \/ FitFinish
    \/ Evaluate

Spec == Init /\ [][Next]_vars

----------------------------------------------------------------------------
(* Properties                                                               *)

\* Positions in log of the events e of column (or order) y
EventsOf(e, y) == {i \in 1..Len(log) : log[i].ev = e /\ log[i].y = y}

Columns == 1..NumY(training)

\* Twice-scaled gradient of the objective of column y at s is zero, i.e. the
\* gradient norm is below 1e-16
GradIsZero(s, y) ==
    OptGrad(s, opts.approx_norm, InitializeHessian(opts),
            [kx \in DOMAIN training |-> FullJac(kx, training[kx].xt)],
            GetYtDict(training, y)) = 0

\* C1: with approx_norm = 2 no Newton iteration is performed for any column
\* (no Hessian re-assembly, Newton solve or line search), whatever
\* max_nln_iter is, and the coefficients returned are the bootstrap solution.
C1_NoNewtonWhenNormIs2 ==
    opts.approx_norm = 2 =>
        /\ \A i \in 1..Len(log) : log[i].ev # "newton"
        /\ pc = "ret" =>
             \A y \in Columns : \A i \in EventsOf("boot", y) : sol[y] = log[i].v

\* C2: the bootstrap solve is performed exactly once per output column, for
\* every max_nln_iter and approx_norm, and the bootstrap solves of all columns
\* are finished before the first Newton iteration (or its diagnostic) of any
\* column.
C2_BootstrapOncePerColumnFirst ==
    /\ \A y \in Columns : Cardinality(EventsOf("boot", y)) <= 1
    /\ pc \in {"enter", "loop", "ret"} =>
         \A y \in Columns : Cardinality(EventsOf("boot", y)) = 1
    /\ \A i \in 1..Len(log) : log[i].ev \in {"newton", "diag"} =>
         \A y \in Columns : \E j \in EventsOf("boot", y) : j < i

\* C2 witness: _solve is about to return for two columns, both solved once,
\* and the first column has run a Newton iteration.
C2_Witness ==
    /\ pc = "ret"
    /\ NumY(training) = 2
    /\ EventsOf("newton", 1) # {}
    /\ \A y \in Columns : Cardinality(EventsOf("boot", y)) = 1

\* C3: evaluate on an instance on which no fit has completed (sol absent; in
\* the state UNFITTED num is absent too) fails and returns no prediction, the
\* failure being the attribute error of the unfitted instance when neither
\* sol nor num exists; a call is in progress (FITTING) only through fit.
C3_EvaluateUnfittedFails ==
    /\ (res.call = "evaluate" /\ ~self_sol.present) =>
          /\ res.status # "ok"
          /\ res.y = <<>>
          /\ ~self_num.present => res.status = "AttributeError"
    /\ pc # "idle" => (res.call = "fit" /\ res.status = "running")

\* C3 witness: evaluate was called before any fit and raised.
C3_Witness ==
    /\ res.call = "evaluate"
    /\ ~self_sol.present
    /\ ~self_num.present
    /\ res.status = "AttributeError"

\* Some point of order kx lies strictly outside the bounds of a dimension
OutsideOrder(kx) ==
    \E i \in 1..Len(training[kx].xt) : \E d \in 1..NumX :
        \/ training[kx].xt[i][d] < xlimits[d][1]
        \/ training[kx].xt[i][d] > xlimits[d][2]

SolveEvents == {"assemble2", "boot", "diag", "newton"}

\* C4: when some order of the training set has a point strictly outside the
\* bounds, the assembly fails with an error naming an offending order, before
\* any linear solve and without requesting the Jacobian of that order; the fit
\* never gets past the assembly.  Points on a bound are accepted: a training
\* set with no point strictly outside never fails the assembly.
C4_OutOfDomainRejected ==
    /\ res.status = "AssertionError" =>
          /\ res.call = "fit"
          /\ res.order \in DOMAIN training
          /\ OutsideOrder(res.order)
          /\ res.text \in {"Training pts below min", "Training pts above max"}
          /\ \A i \in 1..Len(log) : log[i].ev \notin SolveEvents
          /\ EventsOf("jac", res.order) = {}
          /\ pc = "idle"
    /\ (\E kx \in DOMAIN training : OutsideOrder(kx)) =>
          /\ pc \in {"idle", "approx"}
          /\ ~self_sol.present
          /\ \A i \in 1..Len(log) : log[i].ev \notin SolveEvents
          /\ \A i \in 1..Len(log) : ~OutsideOrder(log[i].y)
          /\ (res.call = "fit" /\ pc = "idle") => res.status = "AssertionError"
    /\ (\A kx \in DOMAIN training : ~OutsideOrder(kx)) =>
          res.status # "AssertionError"

\* C4 witness: the fit failed on order 1 after the Jacobian of order 0 had been
\* assembled.
C4_Witness ==
    /\ res.status = "AssertionError"
    /\ res.order = 1
    /\ EventsOf("jac", 0) # {}

\* A step that is a call of fit (evaluate never leaves res.call = "fit" behind
\* on a changed state)
FitCall == pc = "idle" /\ res'.call = "fit"

\* The record the caching helper would report for the current data and options
CacheHit == CachingLoad(cache, CachingChecksum(training, opts)).loaded

\* C5: _fit is skipped iff save_solution is true and the cache load reports a
\* matching record, and then sol and num are those of the record; on a miss
\* (no file, other checksum) fit runs _fit and raises nothing; with
\* save_solution false the cache is never written and its content has no
\* effect on the call.
C5_FitSkippedIffCacheHit ==
    [][ /\ FitCall =>
            /\ (pc' = "idle") <=> (opts.save_solution /\ CacheHit)
            /\ (pc' = "approx") <=> ~(opts.save_solution /\ CacheHit)
            /\ (opts.save_solution /\ CacheHit) =>
                  /\ self_sol' = Present(cache.sol)
                  /\ self_num' = cache.num
                  /\ res'.status = "ok"
                  /\ res'.loaded
            /\ ~(opts.save_solution /\ CacheHit) =>
                  /\ res'.status = "running"
                  /\ ~res'.loaded
                  /\ self_sol' = self_sol
        /\ ~opts.save_solution => cache' = cache
      ]_vars

\* C5 witness: a fit returned the record of the cache without running _fit.
C5_Witness ==
    /\ res.call = "fit"
    /\ res.status = "ok"
    /\ res.loaded
    /\ opts.save_solution
    /\ cache.present /\ self_sol = Present(cache.sol)

\* C6 (as stated): a fit call issued in state FITTED always runs the full
\* fitting procedure again, for every configuration, save_solution = true with
\* unchanged data and options included.
C6_RefitAlwaysFull ==
    [][ (FitCall /\ self_sol.present) => pc' = "approx" ]_vars

\* C6 (amended): a fit call issued in state FITTED runs the full fitting
\* procedure again, and its result replaces sol wholesale, unless
\* save_solution is true and the cache holds a record with the matching
\* checksum; in that case the call returns at once with sol and num taken from
\* the record.
C6_RefitFullUnlessCacheHit ==
    [][ /\ (FitCall /\ self_sol.present) =>
            IF opts.save_solution /\ CacheHit
            THEN /\ pc' = "idle"
                 /\ self_sol' = Present(cache.sol)
                 /\ self_num' = cache.num
            ELSE /\ pc' = "approx"
                 /\ log' = <<>>
                 /\ res'.refit
        /\ (pc = "ret" /\ res.refit) =>
            /\ pc' = "idle"
            /\ self_sol' = Present(sol)
            /\ \A y \in Columns : Cardinality(EventsOf("boot", y)) = 1
      ]_vars

\* C6 witness: a second fit ran the whole procedure and returned.
C6_Witness ==
    /\ res.call = "fit"
    /\ res.refit
    /\ ~res.loaded
    /\ res.status = "ok"
    /\ self_sol.present

\* The gradient norm of column y is not below 1e-16 at the iterate of event i
NotConvergedAt(i) == ~GradIsZero(log[i].v, log[i].y)

\* Column y has used its whole budget without ever meeting the threshold
Exhausted(y) ==
    /\ opts.max_nln_iter > 0
    /\ Cardinality(EventsOf("newton", y)) = opts.max_nln_iter
    /\ \A i \in EventsOf("newton", y) : NotConvergedAt(i)

\* C7: a column runs at most max_nln_iter Newton iterations; when the budget
\* is used up without the gradient norm ever dropping below 1e-16 no error is
\* raised, the iterate of the last line search stays the column's
\* coefficients, the remaining columns are processed and _solve returns sol.
C7_BudgetExhaustedIsAccepted ==
    /\ \A y \in Columns :
         /\ Cardinality(EventsOf("newton", y)) <= opts.max_nln_iter
         /\ \A i \in EventsOf("newton", y) : log[i].it <= opts.max_nln_iter
    /\ \A y \in Columns : Exhausted(y) =>
         /\ res.status = "running"
         /\ pc \in {"enter", "loop", "ret"}
         /\ pc = "ret" \/ ind_y > y
         /\ \E i \in EventsOf("newton", y) :
               log[i].it = opts.max_nln_iter /\ sol[y] = log[i].v
    /\ pc = "ret" =>
         /\ res.status = "running"
         /\ \A y \in Columns :
               /\ EventsOf("boot", y) # {}
               /\ opts.max_nln_iter > 0 => EventsOf("diag", y) # {}

\* C7 witness: the first of two columns used its whole budget of two
\* iterations without converging, and _solve is about to return.
C7_Witness ==
    /\ pc = "ret"
    /\ NumY(training) = 2
    /\ opts.max_nln_iter = 2
    /\ Exhausted(1)
    /\ EventsOf("newton", 2) # {}

\* C8: the Newton loop of a column stops right after the first iteration whose
\* post-step gradient norm is below 1e-16, and only then or when the budget is
\* used up, whatever happened in the other columns; the threshold is tested
\* only after a step, so with max_nln_iter > 0 every column runs at least one
\* iteration, also when its bootstrap solution already meets the threshold.
C8_StopsAtFirstConvergedStep ==
    /\ \A y \in Columns : \A i \in EventsOf("newton", y) :
         ~NotConvergedAt(i) => \A j \in EventsOf("newton", y) : j <= i
    /\ \A y \in Columns :
         (pc = "ret" \/ (pc \in {"enter", "loop"} /\ ind_y > y)) =>
            LET n == Cardinality(EventsOf("newton", y)) IN
            /\ opts.max_nln_iter > 0 => n >= 1
            /\ \/ n = opts.max_nln_iter
               \/ \E i \in EventsOf("newton", y) : log[i].it = n /\ ~NotConvergedAt(i)
    /\ \A y \in Columns :
         (pc = "loop" /\ ind_y = y) =>
            \A i \in EventsOf("newton", y) : NotConvergedAt(i)

\* C8 witness: with a budget of two, one column stopped after a single
\* iteration although its bootstrap solution already met the threshold, and
\* the other column ran both of its iterations.
C8_Witness ==
    /\ pc = "ret"
    /\ opts.max_nln_iter = 2
    /\ \E y \in Columns : \E z \in Columns :
         /\ y # z
         /\ \E b \in EventsOf("boot", y) : ~NotConvergedAt(b)
         /\ Cardinality(EventsOf("newton", y)) = 1
         /\ Cardinality(EventsOf("newton", z)) = 2

\* The offset vector of x to the closed domain is zero
ZeroOffset(x) == \A d \in 1..NumX : ComputeExtDist(x)[d] = 0

ScaledTerm(x, kx, ix) == ComputeJac(JacOrder(kx), ix, x) * ComputeExtDist(x)[ix]

\* C10: in evaluate with extrapolate = true on a fitted model, when the
\* derivative along the 0-based dimension kx is requested the correction of
\* dimension kx is dropped exactly when the offset of the point along kx is
\* nonzero, and the correction of every other dimension is added, scaled by
\* the offset along it; when the value is requested (kx = None) a prediction
\* is returned and no correction is dropped.
C10_OnlyOwnCorrectionDropped ==
    (/\ res.call = "evaluate"
     /\ opts.extrapolate
     /\ self_sol.present
     /\ (res.kx # KxNone => res.kx[1] < NumX)) =>
        /\ res.status = "ok"
        /\ \A ix \in 1..NumX :
             IF res.kx # KxNone /\ ix = res.kx[1] + 1
                  /\ ComputeExtDist(res.x)[ix] # 0
             THEN res.corr[ix] = 0
             ELSE res.corr[ix] = ScaledTerm(res.x, res.kx, ix)

\* The query point has a coordinate outside the domain bounds
OutsideDomain(x) == \E d \in 1..NumX : x[d] < xlimits[d][1] \/ x[d] > xlimits[d][2]

\* C11: with extrapolate = false, evaluate on a fitted model at a query point
\* that has a coordinate outside the domain bounds fails with an out-of-domain
\* error: no prediction is returned for such a point, in particular not the
\* prediction of the nearest point of the domain.
C11_QueryOutsideRejected ==
    (/\ res.call = "evaluate"
     /\ ~opts.extrapolate
     /\ self_num.present
     /\ self_sol.present
     /\ OutsideDomain(res.x)) =>
        /\ res.status # "ok"
        /\ res.status = "OutOfDomainError"

\* The Jacobian set of the training data, as _compute_approx_terms builds it
JacOfTraining == [kx \in DOMAIN training |-> FullJac(kx, training[kx].xt)]

\* The solutions the initial linear solve can give for column y taken alone
BootAlone(y) ==
    SolverSolve(OptHess2(InitializeHessian(opts), JacOfTraining),
                -OptGrad(0, 2, InitializeHessian(opts), JacOfTraining,
                         GetYtDict(training, y)))

\* The iterates one Newton step can give for column y from the iterate s
StepAlone(s, y) ==
    LET yd == GetYtDict(training, y)
        h  == InitializeHessian(opts)
        p  == opts.approx_norm
    IN  UNION { LineSearch(s, d) :
                  d \in SolverSolve(OptHess(s, p, h, JacOfTraining, yd),
                                    -OptGrad(s, p, h, JacOfTraining, yd)) }

\* The coefficients the Newton loop can end with for column y taken alone,
\* from the iterate s with it iterations done
RECURSIVE NewtonAlone(_, _, _)
NewtonAlone(s, it, y) ==
    IF it >= opts.max_nln_iter THEN {s}
    ELSE UNION { IF GradIsZero(s2, y) THEN {s2} ELSE NewtonAlone(s2, it + 1, y) :
                 s2 \in StepAlone(s, y) }

\* The final coefficients of column y when it is the only column processed
ColumnAlone(y) == UNION { NewtonAlone(s, 0, y) : s \in BootAlone(y) }

\* A step of _solve that belongs to column ind_y leaves the other columns of
\* sol, rhs and d_sol as they are
OtherColumnsKept ==
    \A c \in DOMAIN sol :
        c # ind_y => sol'[c] = sol[c] /\ rhs'[c] = rhs[c] /\ d_sol'[c] = d_sol[c]

\* C12: in _solve, the initial solve and every Newton iteration (direction
\* solve and line search) of column y change only column y of sol, rhs and
\* d_sol; no step of _solve changes full_hess or full_jac_dict; the
\* coefficients _solve returns for a column are coefficients that the column
\* gets when it is processed alone, so they do not depend on the processing
\* order of the columns.
C12_ColumnStepsAreIndependent ==
    /\ [][ /\ pc \in {"boot", "enter", "loop"} => OtherColumnsKept
           /\ pc \in {"assemble", "boot", "enter", "loop"} =>
                  full_hess' = full_hess /\ full_jac_dict' = full_jac_dict ]_vars
    /\ [](pc = "ret" => \A y \in Columns : sol[y] \in ColumnAlone(y))

\* C12 witness: _solve is about to return two columns that both went through
\* their initial solve and Newton iterations and ended with different
\* coefficients, the first column having changed after the initial solve of
\* the second.
C12_Witness ==
    /\ pc = "ret"
    /\ NumY(training) = 2
    /\ EventsOf("newton", 1) # {} /\ EventsOf("newton", 2) # {}
    /\ sol[1] # sol[2]
    /\ sol[1] \notin ColumnAlone(2)
    /\ rhs[1] # rhs[2]
    /\ d_sol[1] # 0 /\ d_sol[2] # 0

====
